---- MODULE Spec2Model ----
(***************************************************************************)
(* Model of cmd/natc/ippool/consensusippool.go: the replicated IP pool of  *)
(* natc.  The raft FSM entry point Apply dispatches committed log entries  *)
(* to applyCheckoutAddr and applyMarkLastUsed, which mutate perPeerMap.    *)
(* DomainForIP reads perPeerMap locally (retryDomainLookup) and starts a   *)
(* goroutine that submits a markLastUsed command.                          *)
(***************************************************************************)
EXTENDS Integers, Sequences, FiniteSets, TLC

(***************************************************************************)
(* Bounds of the model.                                                    *)
(***************************************************************************)
\* timestamps (time.Time values carried in command arguments) are 0..MaxTime
MaxTime == 2

Times == 0 .. MaxTime

\* tailcfg.NodeID values of the peers that ask for addresses
Peers == {"P1", "P2"}

\* the peer of the specifications that follow one peer
OnePeer == {"P1"}

\* the timestamps of the specifications that follow every peer
CoarseTimes == {0, MaxTime}

\* domain names
Domains == {"a.example", "b.example", "c.example"}

\* ConsensusIPPool.IPSet: the ranges of ipset.Ranges(), in order.  Addresses
\* are integers; the set here is {1} \cup 3..LastAddr, two ranges with a gap.
LastAddr == 3

IPSet == << [From |-> 1, To |-> 1], [From |-> 3, To |-> LastAddr] >>

RECURSIVE RangeAddrs(_, _)
RangeAddrs(ranges, i) ==
    IF i > Len(ranges) THEN {}
    ELSE (ranges[i].From .. ranges[i].To) \cup RangeAddrs(ranges, i + 1)

\* every address of the Address Set
Addrs == RangeAddrs(IPSet, 1)

\* netip.Addr{}: the zero Addr, returned next to an error
NoAddr == 0

\* the error of unusedIPV4, errors.New("ip pool exhausted")
ErrExhausted == "ip pool exhausted"

\* a nil error
Nil == "nil"

(***************************************************************************)
(* State.                                                                  *)
(***************************************************************************)
VARIABLES
    perPeerMap,   \* ConsensusIPPool.perPeerMap: NodeID -> consensusPerPeerState
    lastApply,    \* the log entry Apply handled last, with what it returned
    panicked,     \* TRUE once a goroutine has panicked: the process has stopped
    reader,       \* the DomainForIP call in progress and where it stands
    lookups,      \* the lookups the call has made in perPeerMap so far
    sleeps,       \* the durations (ms) the call has slept so far, in order
    refresh       \* the goroutine DomainForIP started to mark the address used

vars == << perPeerMap, lastApply, panicked, reader, lookups, sleeps, refresh >>

\* the state of the DomainForIP caller and of its goroutine
readVars == << reader, lookups, sleeps, refresh >>

\* the maps of Go are functions whose DOMAIN is the set of keys present
EmptyMap == << >>

\* m[k] = v on a map (mak.Set on a possibly nil map, syncs.Map.Store)
MapSet(m, k, v) == [x \in (DOMAIN m) \cup {k} |-> IF x = k THEN v ELSE m[x]]

\* delete(m, k)
MapDelete(m, k) == [x \in (DOMAIN m) \ {k} |-> m[x]]

\* whereWhen{Domain, LastUsed}
whereWhen(domain, lastUsed) == [Domain |-> domain, LastUsed |-> lastUsed]

\* &consensusPerPeerState{addrToDomain: &syncs.Map{}}: domainToAddr is nil
NewPeerState == [domainToAddr |-> EmptyMap, addrToDomain |-> EmptyMap]

(***************************************************************************)
(* unusedIPV4: the first address, in range order, that addrToDomain does   *)
(* not hold or whose LastUsed is before reuseDeadline.                     *)
(***************************************************************************)
\* a scan that takes an address last used at the deadline for expired
BeforeOrAt(lastUsed, reuseDeadline) == lastUsed <= reuseDeadline

\* ww.LastUsed.Before(reuseDeadline)
Before(lastUsed, reuseDeadline) == lastUsed < reuseDeadline

\* a scan that reports an expired address as one that was never in use
RECURSIVE ScanRangeNotInUse(_, _, _, _)
ScanRangeNotInUse(ps, ip, toIP, reuseDeadline) ==
    IF ip > toIP THEN [found |-> FALSE]
    ELSE IF ip \notin DOMAIN ps.addrToDomain
            \/ Before(ps.addrToDomain[ip].LastUsed, reuseDeadline)
         THEN [found |-> TRUE, addr |-> ip, wasInUse |-> FALSE,
               previousDomain |-> "", err |-> Nil]
    ELSE ScanRangeNotInUse(ps, ip + 1, toIP, reuseDeadline)

\* the inner loop: for toIP.Compare(ip) != -1 { ... ip = ip.Next() }
RECURSIVE ScanRange(_, _, _, _)
ScanRange(ps, ip, toIP, reuseDeadline) ==
    IF ip > toIP THEN [found |-> FALSE]
    ELSE IF ip \notin DOMAIN ps.addrToDomain
         THEN [found |-> TRUE, addr |-> ip, wasInUse |-> FALSE,
               previousDomain |-> "", err |-> Nil]
    ELSE IF Before(ps.addrToDomain[ip].LastUsed, reuseDeadline)
         THEN [found |-> TRUE, addr |-> ip, wasInUse |-> TRUE,
               previousDomain |-> ps.addrToDomain[ip].Domain, err |-> Nil]
    ELSE ScanRange(ps, ip + 1, toIP, reuseDeadline)

\* a scan that gives up after the first range
ScanFirstRange(ps, ipset, i, reuseDeadline) ==
    LET r == IF i > Len(ipset) THEN [found |-> FALSE]
             ELSE ScanRange(ps, ipset[i].From, ipset[i].To, reuseDeadline)
    IN  IF r.found
        THEN [addr |-> r.addr, wasInUse |-> r.wasInUse,
              previousDomain |-> r.previousDomain, err |-> r.err]
        ELSE [addr |-> NoAddr, wasInUse |-> FALSE, previousDomain |-> "",
              err |-> ErrExhausted]

\* the outer loop: for _, r := range ipset.Ranges() { ... }, then the error
RECURSIVE ScanRanges(_, _, _, _)
ScanRanges(ps, ipset, i, reuseDeadline) ==
    IF i > Len(ipset)
    THEN [addr |-> NoAddr, wasInUse |-> FALSE, previousDomain |-> "",
          err |-> ErrExhausted]
    ELSE LET r == ScanRange(ps, ipset[i].From, ipset[i].To, reuseDeadline)
         IN  IF r.found
             THEN [addr |-> r.addr, wasInUse |-> r.wasInUse,
                   previousDomain |-> r.previousDomain, err |-> r.err]
             ELSE ScanRanges(ps, ipset, i + 1, reuseDeadline)

unusedIPV4(ps, ipset, reuseDeadline) == ScanRanges(ps, ipset, 1, reuseDeadline)

(***************************************************************************)
(* applyCheckoutAddr: the new perPeerMap, the address and error returned,  *)
(* and the return statement taken (branch).                                *)
(***************************************************************************)
\* a new peer whose state is the state of a peer already in the pool
loadOrCreatePeerShared(pm, nid) ==
    IF nid \in DOMAIN pm THEN pm
    ELSE IF DOMAIN pm = {} THEN MapSet(pm, nid, NewPeerState)
    ELSE MapSet(pm, nid, pm[CHOOSE q \in DOMAIN pm : TRUE])

\* the peer state of nid, created when perPeerMap does not hold it
loadOrCreatePeer(pm, nid) ==
    IF nid \in DOMAIN pm THEN pm ELSE MapSet(pm, nid, NewPeerState)

\* a fast path that returns the address without storing the new LastUsed
refreshNotStored(ps, existing, updatedAt) == ps

\* the domain has an address: ww.LastUsed = updatedAt; Store(existing, ww)
refreshExisting(ps, existing, updatedAt) ==
    [ps EXCEPT !.addrToDomain =
        MapSet(ps.addrToDomain, existing,
               [ps.addrToDomain[existing] EXCEPT !.LastUsed = updatedAt])]

\* a checkout that keeps the forward entry of the previous domain
recordCheckoutKeepPrevious(ps, domain, addr, wasInUse, previousDomain, updatedAt) ==
    [domainToAddr |-> MapSet(ps.domainToAddr, domain, addr),
     addrToDomain |-> MapSet(ps.addrToDomain, addr,
                             whereWhen(domain, updatedAt))]

\* a checkout that deletes the forward entry of the domain it serves
recordCheckoutDeleteOwn(ps, domain, addr, wasInUse, previousDomain, updatedAt) ==
    [domainToAddr |-> IF wasInUse
                      THEN MapDelete(MapSet(ps.domainToAddr, domain, addr), domain)
                      ELSE MapSet(ps.domainToAddr, domain, addr),
     addrToDomain |-> MapSet(ps.addrToDomain, addr,
                             whereWhen(domain, updatedAt))]

\* the address found by unusedIPV4 is recorded for the domain
recordCheckout(ps, domain, addr, wasInUse, previousDomain, updatedAt) ==
    LET set == MapSet(ps.domainToAddr, domain, addr)
    IN  [domainToAddr |-> IF wasInUse THEN MapDelete(set, previousDomain)
                          ELSE set,
         addrToDomain |-> MapSet(ps.addrToDomain, addr,
                                 whereWhen(domain, updatedAt))]

applyCheckoutAddr(pm, nid, domain, reuseDeadline, updatedAt) ==
    LET pm1 == loadOrCreatePeer(pm, nid)
        ps  == pm1[nid]
        hasExisting == domain \in DOMAIN ps.domainToAddr
        existing == ps.domainToAddr[domain]
    IN  IF hasExisting /\ existing \in DOMAIN ps.addrToDomain
        THEN [perPeerMap |-> [pm1 EXCEPT ![nid] =
                                  refreshExisting(ps, existing, updatedAt)],
              addr |-> existing, err |-> Nil, branch |-> "existing"]
        ELSE LET u == unusedIPV4(ps, IPSet, reuseDeadline)
             IN  IF u.err # Nil
                 THEN [perPeerMap |-> pm1, addr |-> NoAddr, err |-> u.err,
                       branch |-> "exhausted"]
                 ELSE [perPeerMap |-> [pm1 EXCEPT ![nid] =
                           recordCheckout(ps, domain, u.addr, u.wasInUse,
                                          u.previousDomain, updatedAt)],
                       addr |-> u.addr, err |-> Nil,
                       branch |-> IF hasExisting THEN "outOfSync"
                                  ELSE IF u.wasInUse THEN "reused"
                                  ELSE "unused"]

(***************************************************************************)
(* applyMarkLastUsed: the new perPeerMap and the return statement taken.   *)
(***************************************************************************)
\* a guard with the comparison the wrong way round
AfterInverted(lastUsed, updatedAt) == updatedAt > lastUsed

\* a mark without the guard: the stored time is always overwritten
AfterNever(lastUsed, updatedAt) == FALSE

\* ww.LastUsed.After(updatedAt)
After(lastUsed, updatedAt) == lastUsed > updatedAt

\* a mark that does not compare the stored domain with the requested one
otherDomainNever(stored, domain) == FALSE

\* ww.Domain != domain
otherDomain(stored, domain) == stored # domain

applyMarkLastUsed(pm, from, addr, domain, updatedAt) ==
    IF from \notin DOMAIN pm
    THEN [perPeerMap |-> pm, err |-> Nil, branch |-> "noPeer"]
    ELSE LET ps == pm[from]
         IN  IF addr \notin DOMAIN ps.addrToDomain
             THEN [perPeerMap |-> pm, err |-> Nil, branch |-> "noAddr"]
             ELSE LET ww == ps.addrToDomain[addr]
                  IN  IF otherDomain(ww.Domain, domain)
                      THEN [perPeerMap |-> pm, err |-> Nil, branch |-> "otherDomain"]
                      ELSE IF After(ww.LastUsed, updatedAt)
                      THEN [perPeerMap |-> pm, err |-> Nil, branch |-> "newer"]
                      ELSE [perPeerMap |-> [pm EXCEPT ![from].addrToDomain =
                                MapSet(ps.addrToDomain, addr,
                                       [ww EXCEPT !.LastUsed = updatedAt])],
                            err |-> Nil, branch |-> "marked"]

(***************************************************************************)
(* The commands of the replicated log: tsconsensus.Command{Name, Args}.    *)
(***************************************************************************)
checkoutAddrArgs(nid, domain, reuseDeadline, updatedAt) ==
    [NodeID |-> nid, Domain |-> domain, ReuseDeadline |-> reuseDeadline,
     UpdatedAt |-> updatedAt]

markLastUsedArgs(nid, addr, domain, updatedAt) ==
    [NodeID |-> nid, Addr |-> addr, Domain |-> domain, UpdatedAt |-> updatedAt]

Command(name, args) == [Name |-> name, Args |-> args]

\* the checkoutAddr entries for the peers P with timestamps from T
CheckoutCommands(P, T) ==
    { Command("checkoutAddr", checkoutAddrArgs(nid, d, rd, t)) :
        nid \in P, d \in Domains, rd \in T, t \in T }

\* the markLastUsed entries for the peers P with timestamps from T
MarkCommands(P, T) ==
    { Command("markLastUsed", markLastUsedArgs(nid, a, d, t)) :
        nid \in P, a \in Addrs, d \in Domains, t \in T }

\* a log entry of a replica that runs another version of the protocol
UnknownCommands(P) == { Command("releaseAddr", [NodeID |-> nid]) : nid \in P }

(***************************************************************************)
(* executeCheckoutAddr, executeMarkLastUsed: the tsconsensus.CommandResult *)
(* and the new perPeerMap.                                                 *)
(***************************************************************************)
executeCheckoutAddr(pm, args) ==
    LET r == applyCheckoutAddr(pm, args.NodeID, args.Domain,
                               args.ReuseDeadline, args.UpdatedAt)
    IN  [perPeerMap |-> r.perPeerMap,
         Result |-> IF r.err # Nil THEN NoAddr ELSE r.addr,
         Err |-> r.err, branch |-> r.branch]

executeMarkLastUsed(pm, args) ==
    LET r == applyMarkLastUsed(pm, args.NodeID, args.Addr, args.Domain,
                               args.UpdatedAt)
    IN  [perPeerMap |-> r.perPeerMap, Result |-> NoAddr, Err |-> r.err,
         branch |-> r.branch]

(***************************************************************************)
(* Apply: one committed log entry.                                         *)
(***************************************************************************)
\* lastApply before any entry is applied
NoEntry == [Domain |-> "", LastUsed |-> 0 - 1]

NoApply == [c |-> Command("", << >>), Result |-> NoAddr, Err |-> Nil,
            branch |-> "none", before |-> NoEntry]

\* the entry that addrToDomain of the peer held for addr when the log entry
\* arrived (history, for the properties below; the code does not keep it)
EntryBefore(pm, nid, addr) ==
    IF nid \in DOMAIN pm /\ addr \in DOMAIN pm[nid].addrToDomain
    THEN pm[nid].addrToDomain[addr]
    ELSE NoEntry

\* a switch whose default case skips the entry instead of panicking
applyEntryIgnoreUnknown(pm, c) ==
    IF c.Name = "checkoutAddr"
    THEN LET r == executeCheckoutAddr(pm, c.Args)
         IN  [perPeerMap |-> r.perPeerMap, panic |-> FALSE,
              last |-> [c |-> c, Result |-> r.Result, Err |-> r.Err,
                        branch |-> r.branch,
                        before |-> EntryBefore(pm, c.Args.NodeID, r.Result)]]
    ELSE IF c.Name = "markLastUsed"
    THEN LET r == executeMarkLastUsed(pm, c.Args)
         IN  [perPeerMap |-> r.perPeerMap, panic |-> FALSE,
              last |-> [c |-> c, Result |-> r.Result, Err |-> r.Err,
                        branch |-> r.branch,
                        before |-> EntryBefore(pm, c.Args.NodeID, c.Args.Addr)]]
    ELSE [perPeerMap |-> pm, panic |-> FALSE,
          last |-> [c |-> c, Result |-> NoAddr, Err |-> Nil,
                    branch |-> "panic", before |-> NoEntry]]

\* the switch of Apply on c.Name: what the handler returns, the state it
\* leaves, and whether Apply panics
applyEntry(pm, c) ==
    IF c.Name = "checkoutAddr"
    THEN LET r == executeCheckoutAddr(pm, c.Args)
         IN  [perPeerMap |-> r.perPeerMap, panic |-> FALSE,
              last |-> [c |-> c, Result |-> r.Result, Err |-> r.Err,
                        branch |-> r.branch,
                        before |-> EntryBefore(pm, c.Args.NodeID, r.Result)]]
    ELSE IF c.Name = "markLastUsed"
    THEN LET r == executeMarkLastUsed(pm, c.Args)
         IN  [perPeerMap |-> r.perPeerMap, panic |-> FALSE,
              last |-> [c |-> c, Result |-> r.Result, Err |-> r.Err,
                        branch |-> r.branch,
                        before |-> EntryBefore(pm, c.Args.NodeID, c.Args.Addr)]]
    ELSE [perPeerMap |-> pm, panic |-> TRUE,
          last |-> [c |-> c, Result |-> NoAddr, Err |-> Nil,
                    branch |-> "panic", before |-> NoEntry]]

\* raft hands the committed entry c to Apply
Apply(c) ==
    /\ ~panicked
    /\ LET r == applyEntry(perPeerMap, c)
       IN  /\ perPeerMap' = r.perPeerMap
           /\ lastApply' = r.last
           /\ panicked' = r.panic

ApplyCheckoutAddr(P, T) == \E c \in CheckoutCommands(P, T) : Apply(c)

ApplyMarkLastUsed(P, T) == \E c \in MarkCommands(P, T) : Apply(c)

ApplyUnknown(P) == \E c \in UnknownCommands(P) : Apply(c)

(***************************************************************************)
(* retryDomainLookup and DomainForIP.  A call is at "lookup" before the    *)
(* Load of attempt n, at "sleep" inside time.Sleep, at "returned" once     *)
(* DomainForIP has returned (domain, found).                               *)
(***************************************************************************)
Idle == [pc |-> "idle"]

\* a lookup that gives up after the third miss
giveUpEarly(n) == n > 1

\* a lookup that goes on for one more round
giveUpLate(n) == n > 5

\* if n > 4: the miss is final
giveUp(n) == n > 4

\* a backoff that grows by 100 ms each round
RECURSIVE timeToWaitLinear(_)
timeToWaitLinear(n) == IF n = 0 THEN 100 ELSE timeToWaitLinear(n - 1) + 100

\* timeToWait := 100; for i := 0; i < n; i++ { timeToWait *= 2 }
RECURSIVE timeToWait(_)
timeToWait(n) == IF n = 0 THEN 100 ELSE timeToWait(n - 1) * 2

\* a lookup that reports a hit as soon as the peer state is found
lookupPeerOnly(pm, from, addr) ==
    IF from \in DOMAIN pm
    THEN [ww |-> IF addr \in DOMAIN pm[from].addrToDomain
                 THEN pm[from].addrToDomain[addr]
                 ELSE whereWhen("", 0),
          ok |-> TRUE, foundPeerState |-> TRUE]
    ELSE [ww |-> whereWhen("", 0), ok |-> FALSE, foundPeerState |-> FALSE]

\* ps, foundPeerState := perPeerMap.Load(from); ps.addrToDomain.Load(addr)
lookup(pm, from, addr) ==
    IF from \in DOMAIN pm /\ addr \in DOMAIN pm[from].addrToDomain
    THEN [ww |-> pm[from].addrToDomain[addr], ok |-> TRUE,
          foundPeerState |-> TRUE]
    ELSE [ww |-> whereWhen("", 0), ok |-> FALSE,
          foundPeerState |-> from \in DOMAIN pm]

\* a DomainForIP that calls markLastUsed itself and waits for Apply
markLastUsedInline(pm, args) ==
    [perPeerMap |-> applyMarkLastUsed(pm, args.NodeID, args.Addr, args.Domain,
                                      args.UpdatedAt).perPeerMap,
     refresh |-> [state |-> "none"]]

\* go func() { err := ipp.markLastUsed(from, addr, ww.Domain, updatedAt) ... }()
\* the goroutine is started with its arguments; perPeerMap is not touched
goMarkLastUsed(pm, args) ==
    [perPeerMap |-> pm, refresh |-> [state |-> "started", args |-> args]]

\* a caller enters DomainForIP(from, addr, updatedAt)
DomainForIPCall(from, addr, updatedAt) ==
    /\ ~panicked
    /\ reader.pc \in {"idle", "returned"}
    /\ refresh.state = "none"
    /\ reader' = [pc |-> "lookup", from |-> from, addr |-> addr,
                  updatedAt |-> updatedAt, n |-> 0]
    /\ lookups' = 0
    /\ sleeps' = << >>
    /\ UNCHANGED << perPeerMap, lastApply, panicked, refresh >>

\* one pass of retryDomainLookup up to its return or its time.Sleep; on a
\* hit DomainForIP starts the goroutine and returns.  The two Loads are one
\* step: a peer state is never removed, so the Load of addrToDomain decides.
Lookup ==
    /\ ~panicked
    /\ reader.pc = "lookup"
    /\ lookups' = lookups + 1
    /\ LET r == lookup(perPeerMap, reader.from, reader.addr)
       IN  IF r.ok
           THEN LET g == goMarkLastUsed(perPeerMap,
                              markLastUsedArgs(reader.from, reader.addr,
                                  r.ww.Domain, reader.updatedAt))
                IN  /\ reader' = [reader EXCEPT !.pc = "returned"] @@
                                  [domain |-> r.ww.Domain, found |-> TRUE,
                                   log |-> ""]
                    /\ refresh' = g.refresh
                    /\ perPeerMap' = g.perPeerMap
                    /\ UNCHANGED sleeps
           ELSE IF giveUp(reader.n)
           THEN /\ reader' = [reader EXCEPT !.pc = "returned"] @@
                             [domain |-> "", found |-> FALSE,
                              log |-> IF r.foundPeerState
                                      THEN "peer state doesn't recognize addr"
                                      ELSE "peer state absent"]
                /\ UNCHANGED << sleeps, refresh, perPeerMap >>
           ELSE /\ reader' = [reader EXCEPT !.pc = "sleep"]
                /\ sleeps' = Append(sleeps, timeToWait(reader.n))
                /\ UNCHANGED << refresh, perPeerMap >>
    /\ UNCHANGED << lastApply, panicked >>

\* time.Sleep returns: return ipp.retryDomainLookup(from, addr, n+1)
Wake ==
    /\ ~panicked
    /\ reader.pc = "sleep"
    /\ reader' = [reader EXCEPT !.pc = "lookup", !.n = reader.n + 1]
    /\ UNCHANGED << perPeerMap, lastApply, panicked, lookups, sleeps, refresh >>

(***************************************************************************)
(* The goroutine of DomainForIP: markLastUsed submits the command with     *)
(* ExecuteCommand; an error it returns is passed to panic.                 *)
(***************************************************************************)
NoRefresh == [state |-> "none"]

\* if err != nil { panic(err) }
afterMarkLastUsed(err) == [panic |-> err # Nil]

\* the error of ExecuteCommand when raft could not commit the entry
ErrRaft == "raft error"

\* ExecuteCommand returns an error: the entry was not committed
RefreshSubmitFails ==
    /\ ~panicked
    /\ refresh.state = "started"
    /\ refresh' = [state |-> "failed", args |-> refresh.args, err |-> ErrRaft]
    /\ panicked' = afterMarkLastUsed(ErrRaft).panic
    /\ UNCHANGED << perPeerMap, lastApply, reader, lookups, sleeps >>

\* ExecuteCommand commits the entry, Apply handles it and the result comes
\* back: result.Err is returned by markLastUsed
RefreshCommits ==
    /\ ~panicked
    /\ refresh.state = "started"
    /\ LET r == applyEntry(perPeerMap, Command("markLastUsed", refresh.args))
       IN  /\ perPeerMap' = r.perPeerMap
           /\ lastApply' = r.last
           /\ refresh' = IF r.last.Err # Nil
                         THEN [state |-> "failed", args |-> refresh.args,
                               err |-> r.last.Err]
                         ELSE NoRefresh
           /\ panicked' = afterMarkLastUsed(r.last.Err).panic
    /\ UNCHANGED << reader, lookups, sleeps >>

Init ==
    /\ perPeerMap = EmptyMap
    /\ lastApply = NoApply
    /\ panicked = FALSE
    /\ reader = Idle
    /\ lookups = 0
    /\ sleeps = << >>
    /\ refresh = NoRefresh

(***************************************************************************)
(* Spec: the log entries of one peer, with every timestamp of Times.       *)
(***************************************************************************)
Next ==
    \/ ApplyCheckoutAddr(OnePeer, Times) /\ UNCHANGED readVars
    \/ ApplyMarkLastUsed(OnePeer, Times) /\ UNCHANGED readVars
    \/ ApplyUnknown(OnePeer) /\ UNCHANGED readVars

Spec == Init /\ [][Next]_vars

(***************************************************************************)
(* SpecPeers: the log entries of every peer: those of P1 carry the         *)
(* timestamps 0 and MaxTime, those of the other peers MaxTime.             *)
(***************************************************************************)
NextPeers ==
    \/ ApplyCheckoutAddr(OnePeer, CoarseTimes) /\ UNCHANGED readVars
    \/ ApplyCheckoutAddr(Peers \ OnePeer, {MaxTime}) /\ UNCHANGED readVars
    \/ ApplyMarkLastUsed(OnePeer, CoarseTimes) /\ UNCHANGED readVars
    \/ ApplyMarkLastUsed(Peers \ OnePeer, {MaxTime}) /\ UNCHANGED readVars
    \/ ApplyUnknown(Peers) /\ UNCHANGED readVars

SpecPeers == Init /\ [][NextPeers]_vars

(***************************************************************************)
(* SpecRead: DomainForIP calls for one peer run next to the log entries    *)
(* that raft applies: checkoutAddr entries of the peer with the timestamps *)
(* 0 and MaxTime, and the markLastUsed entries of the goroutine.           *)
(***************************************************************************)
NextRead ==
    \/ \E from \in OnePeer, addr \in Addrs :
           DomainForIPCall(from, addr, MaxTime)
    \/ Lookup
    \/ Wake
    \/ RefreshSubmitFails
    \/ RefreshCommits
    \/ ApplyCheckoutAddr(OnePeer, CoarseTimes) /\ UNCHANGED readVars

SpecRead == Init /\ [][NextRead]_vars

(***************************************************************************)
(* SpecMarks: the checkoutAddr entries of one peer and the markLastUsed    *)
(* entries of every peer, with the timestamps 0 and MaxTime.               *)
(***************************************************************************)
NextMarks ==
    \/ ApplyCheckoutAddr(OnePeer, CoarseTimes) /\ UNCHANGED readVars
    \/ ApplyMarkLastUsed(Peers, CoarseTimes) /\ UNCHANGED readVars

SpecMarks == Init /\ [][NextMarks]_vars

(***************************************************************************)
(* Properties of the log entries applied.  In Spec and SpecPeers every     *)
(* step applies one log entry; lastApply' is the entry of the step,        *)
(* perPeerMap the state it arrived in and perPeerMap' the state it left.   *)
(***************************************************************************)
\* the forward and reverse maps of peer p in pool state pm (empty when the
\* peer is unseen)
D2A(pm, p) == IF p \in DOMAIN pm THEN pm[p].domainToAddr ELSE EmptyMap

A2D(pm, p) == IF p \in DOMAIN pm THEN pm[p].addrToDomain ELSE EmptyMap

\* the step applies a checkoutAddr entry
CheckoutStep == lastApply'.c.Name = "checkoutAddr"

\* the arguments of the entry of the step
StepArgs == lastApply'.c.Args

\* address a can be handed out under deadline rd: never recorded, or last
\* used strictly before rd
Eligible(pm, p, a, rd) ==
    a \notin DOMAIN A2D(pm, p) \/ A2D(pm, p)[a].LastUsed < rd

\* C1: in every reachable state, for every peer and every domain d of its
\* domainToAddr, addrToDomain holds domainToAddr[d] and names d for it.
BijectionInvariant ==
    \A p \in DOMAIN perPeerMap :
        \A d \in DOMAIN perPeerMap[p].domainToAddr :
            LET a == perPeerMap[p].domainToAddr[d]
            IN  /\ a \in DOMAIN perPeerMap[p].addrToDomain
                /\ perPeerMap[p].addrToDomain[a].Domain = d

\* an expired address has just been reassigned while both peers hold addresses
BijectionWitness ==
    /\ lastApply.branch = "reused"
    /\ DOMAIN perPeerMap = Peers
    /\ \A p \in Peers : DOMAIN perPeerMap[p].domainToAddr # {}
    /\ Cardinality(DOMAIN perPeerMap[lastApply.c.Args.NodeID].domainToAddr) = 2

\* C2: in every reachable state the forward map of each peer is injective:
\* two distinct domains of domainToAddr never map to the same address.
NoDoubleAllocation ==
    \A p \in DOMAIN perPeerMap :
        \A d1, d2 \in DOMAIN perPeerMap[p].domainToAddr :
            d1 # d2 => perPeerMap[p].domainToAddr[d1] # perPeerMap[p].domainToAddr[d2]

\* the state right after an expired address went to a new domain, with
\* every address of the pool held
NoDoubleAllocationWitness ==
    /\ lastApply.branch = "reused"
    /\ lastApply.before.Domain # lastApply.c.Args.Domain
    /\ DOMAIN perPeerMap[lastApply.c.Args.NodeID].addrToDomain = Addrs
    /\ Cardinality(DOMAIN perPeerMap[lastApply.c.Args.NodeID].domainToAddr)
           = Cardinality(Addrs)

\* C4: a checkoutAddr applied where domainToAddr[domain] = a and
\* addrToDomain[a] names the domain returns a, sets the LastUsed of a to the
\* entry's UpdatedAt and changes nothing else, whatever the reuse deadline.
FastPathStep ==
    LET p == StepArgs.NodeID
        d == StepArgs.Domain
    IN  (/\ CheckoutStep
         /\ d \in DOMAIN D2A(perPeerMap, p)
         /\ D2A(perPeerMap, p)[d] \in DOMAIN A2D(perPeerMap, p)
         /\ A2D(perPeerMap, p)[D2A(perPeerMap, p)[d]].Domain = d)
        => LET a == D2A(perPeerMap, p)[d]
           IN  /\ lastApply'.Result = a
               /\ lastApply'.Err = Nil
               /\ perPeerMap' = [perPeerMap EXCEPT
                      ![p].addrToDomain[a].LastUsed = StepArgs.UpdatedAt]
               /\ DOMAIN perPeerMap'[p].addrToDomain = DOMAIN perPeerMap[p].addrToDomain
               /\ perPeerMap'[p].domainToAddr = perPeerMap[p].domainToAddr

FastPath == [][FastPathStep]_vars

\* the fast path served a domain whose address had expired under the
\* entry's deadline, and stored a new LastUsed
FastPathWitness ==
    /\ lastApply.branch = "existing"
    /\ lastApply.before.Domain = lastApply.c.Args.Domain
    /\ lastApply.before.LastUsed < lastApply.c.Args.ReuseDeadline
    /\ lastApply.before.LastUsed # lastApply.c.Args.UpdatedAt
    /\ lastApply.Result # NoAddr

\* C5: a successful checkoutAddr for a domain without a mapping returns the
\* lowest address that is absent from addrToDomain or has LastUsed strictly
\* before the deadline: the address returned is eligible and no lower
\* address of the Address Set is.
FirstFitStep ==
    LET p == StepArgs.NodeID
    IN  (/\ CheckoutStep
         /\ StepArgs.Domain \notin DOMAIN D2A(perPeerMap, p)
         /\ lastApply'.Err = Nil)
        => /\ lastApply'.Result \in Addrs
           /\ Eligible(perPeerMap, p, lastApply'.Result, StepArgs.ReuseDeadline)
           /\ \A b \in Addrs :
                  b < lastApply'.Result
                      => ~Eligible(perPeerMap, p, b, StepArgs.ReuseDeadline)

FirstFit == [][FirstFitStep]_vars

\* the lowest address was reclaimed although a higher one is staler
FirstFitWitness ==
    /\ lastApply.branch = "reused"
    /\ \E b \in DOMAIN perPeerMap[lastApply.c.Args.NodeID].addrToDomain :
          /\ b > lastApply.Result
          /\ perPeerMap[lastApply.c.Args.NodeID].addrToDomain[b].LastUsed
                 < lastApply.before.LastUsed

\* C6: a checkoutAddr for domain d that reclaims address a, recorded for
\* another domain p with LastUsed before the deadline, leaves domainToAddr[d]
\* = a, addrToDomain[a] = {d, UpdatedAt} and p out of domainToAddr.
ReuseStep ==
    LET n == StepArgs.NodeID
        d == StepArgs.Domain
        a == lastApply'.Result
    IN  (/\ CheckoutStep
         /\ lastApply'.Err = Nil
         /\ d \notin DOMAIN D2A(perPeerMap, n)
         /\ a \in DOMAIN A2D(perPeerMap, n)
         /\ A2D(perPeerMap, n)[a].Domain # d
         /\ A2D(perPeerMap, n)[a].LastUsed < StepArgs.ReuseDeadline)
        => /\ d \in DOMAIN perPeerMap'[n].domainToAddr
           /\ perPeerMap'[n].domainToAddr[d] = a
           /\ perPeerMap'[n].addrToDomain[a] = whereWhen(d, StepArgs.UpdatedAt)
           /\ A2D(perPeerMap, n)[a].Domain \notin DOMAIN perPeerMap'[n].domainToAddr

ReuseCorrectness == [][ReuseStep]_vars

\* an address of another domain, last used before the deadline, was reclaimed
ReuseWitness ==
    /\ lastApply.branch = "reused"
    /\ lastApply.before.Domain \in Domains \ {lastApply.c.Args.Domain}
    /\ lastApply.before.LastUsed < lastApply.c.Args.ReuseDeadline
    /\ perPeerMap[lastApply.c.Args.NodeID].domainToAddr[lastApply.c.Args.Domain]
           = lastApply.Result

\* C7: a checkoutAddr for a domain without a mapping returns the error
\* "ip pool exhausted" exactly when every address of the Address Set is in
\* addrToDomain with LastUsed not before the deadline, and then no
\* domainToAddr or addrToDomain entry of any peer is added, removed or
\* changed.
ExhaustionStep ==
    LET p == StepArgs.NodeID
    IN  (/\ CheckoutStep
         /\ StepArgs.Domain \notin DOMAIN D2A(perPeerMap, p))
        => /\ (lastApply'.Err = ErrExhausted)
                  <=> (\A a \in Addrs :
                          ~Eligible(perPeerMap, p, a, StepArgs.ReuseDeadline))
           /\ lastApply'.Err \in {Nil, ErrExhausted}
           /\ lastApply'.Err = ErrExhausted
                  => /\ lastApply'.Result = NoAddr
                     /\ \A q \in Peers :
                           /\ D2A(perPeerMap', q) = D2A(perPeerMap, q)
                           /\ A2D(perPeerMap', q) = A2D(perPeerMap, q)

Exhaustion == [][ExhaustionStep]_vars

\* a checkout failed with the pool exhausted while another peer holds addresses
ExhaustionWitness ==
    /\ lastApply.branch = "exhausted"
    /\ lastApply.Err = ErrExhausted
    /\ DOMAIN perPeerMap = Peers
    /\ lastApply.c.Args.Domain
           \notin DOMAIN perPeerMap[lastApply.c.Args.NodeID].domainToAddr
    /\ \E q \in Peers \ {lastApply.c.Args.NodeID} :
           DOMAIN perPeerMap[q].addrToDomain # {}

(***************************************************************************)
(* Properties of DomainForIP, under SpecRead.                              *)
(***************************************************************************)
\* DomainForIP has returned ("", false)
ReturnedMiss == reader.pc = "returned" /\ ~reader.found

RECURSIVE SumSeq(_)
SumSeq(q) == IF q = << >> THEN 0 ELSE Head(q) + SumSeq(Tail(q))

\* C8 as claimed: a call makes at most 5 lookups, waits 100, 200, 400 and
\* 800 ms between them, 1500 ms before the miss, and never waits 1600 ms.
RetryCeilingAsClaimed ==
    /\ lookups <= 5
    /\ \A i \in 1 .. Len(sleeps) : sleeps[i] # 1600
    /\ ReturnedMiss => SumSeq(sleeps) = 1500

\* C8 as amended: a call makes at most 6 lookups (the first and 5 retries),
\* its waits are 100, 200, 400, 800 and 1600 ms in this order, the miss is
\* returned after all six lookups and 3100 ms of waiting, and no wait of
\* 3200 ms nor a seventh lookup occurs.
RetryCeiling ==
    /\ lookups <= 6
    /\ Len(sleeps) <= 5
    /\ \A i \in 1 .. Len(sleeps) : sleeps[i] = << 100, 200, 400, 800, 1600 >>[i]
    /\ ReturnedMiss => /\ lookups = 6
                       /\ sleeps = << 100, 200, 400, 800, 1600 >>
                       /\ SumSeq(sleeps) = 3100

\* a call for an address the known peer never held has returned the miss
RetryCeilingWitness ==
    /\ ReturnedMiss
    /\ reader.log = "peer state doesn't recognize addr"
    /\ reader.from \in DOMAIN perPeerMap
    /\ lookups = 6

\* C9: DomainForIP returns found = false only after at least 5 failed
\* lookups with the waits of 100, 200, 400 and 800 ms between them over.
NoEarlyMiss ==
    ReturnedMiss => /\ lookups >= 5
                    /\ Len(sleeps) >= 4
                    /\ SubSeq(sleeps, 1, 4) = << 100, 200, 400, 800 >>
                    /\ SumSeq(sleeps) >= 1500

\* a call for a peer that perPeerMap never held has returned the miss
NoEarlyMissWitness ==
    /\ ReturnedMiss
    /\ reader.log = "peer state absent"
    /\ reader.from \notin DOMAIN perPeerMap
    /\ Len(sleeps) >= 4

\* C10: a markLastUsed that fails after DomainForIP returned (domain, true)
\* leaves the value returned as it was and does not stop the process.
RefreshFailureContained ==
    refresh.state = "failed"
        => /\ ~panicked
           /\ reader.pc = "returned" => reader.found

(***************************************************************************)
(* Properties of markLastUsed entries.                                     *)
(***************************************************************************)
\* the step applies a markLastUsed entry
MarkStep == lastApply'.c.Name = "markLastUsed"

\* C11: a markLastUsed(peer, address, domain, t) applied where the LastUsed
\* of the address is already t or later leaves perPeerMap as it was; and
\* the same entry applied again right after any markLastUsed changes
\* nothing.
IdempotentMarkStep ==
    LET p == StepArgs.NodeID
        a == StepArgs.Addr
    IN  MarkStep
        => /\ (/\ a \in DOMAIN A2D(perPeerMap, p)
               /\ A2D(perPeerMap, p)[a].LastUsed >= StepArgs.UpdatedAt)
              => perPeerMap' = perPeerMap
           /\ applyMarkLastUsed(perPeerMap', p, a, StepArgs.Domain,
                                StepArgs.UpdatedAt).perPeerMap = perPeerMap'
           /\ \A t \in 0 .. StepArgs.UpdatedAt :
                  applyMarkLastUsed(perPeerMap', p, a, StepArgs.Domain,
                                    t).perPeerMap = perPeerMap'

IdempotentMark == [][IdempotentMarkStep]_vars

\* a mark arrived for the domain of the address with the timestamp the
\* address already had
IdempotentMarkWitness ==
    /\ lastApply.c.Name = "markLastUsed"
    /\ lastApply.branch = "marked"
    /\ lastApply.before.Domain = lastApply.c.Args.Domain
    /\ lastApply.before.LastUsed = lastApply.c.Args.UpdatedAt

\* perPeerMap after the markLastUsed entry m is applied to pm
AfterMark(pm, m) ==
    applyMarkLastUsed(pm, m.Args.NodeID, m.Args.Addr, m.Args.Domain,
                      m.Args.UpdatedAt).perPeerMap

\* C12: from every reachable state, two markLastUsed entries applied in
\* either order, each once or more than once, leave the same perPeerMap.
MarkCommutes ==
    \A m1, m2 \in MarkCommands(Peers, CoarseTimes) :
        LET s12 == AfterMark(AfterMark(perPeerMap, m1), m2)
            s21 == AfterMark(AfterMark(perPeerMap, m2), m1)
        IN  /\ s12 = s21
            /\ AfterMark(s12, m1) = s12
            /\ AfterMark(s21, m2) = s12
            /\ AfterMark(AfterMark(AfterMark(perPeerMap, m1), m1), m2) = s12

\* a mark older than the stored LastUsed arrived after a newer one and two
\* marks of different timestamps for the entry change the state
MarkCommutesWitness ==
    /\ lastApply.c.Name = "markLastUsed"
    /\ lastApply.branch = "newer"
    /\ \E m1, m2 \in MarkCommands(Peers, CoarseTimes) :
          /\ m1.Args.UpdatedAt # m2.Args.UpdatedAt
          /\ AfterMark(perPeerMap, m1) # perPeerMap
          /\ AfterMark(perPeerMap, m2) = perPeerMap
          /\ m1.Args.Addr = m2.Args.Addr
          /\ m1.Args.Domain = m2.Args.Domain

\* the first and the second address of the scan of unusedIPV4
X == IPSet[1].From
Y == IPSet[2].From

\* peer p holds addr for domain in pm, in both maps
Holds(pm, p, domain, addr) ==
    /\ domain \in DOMAIN D2A(pm, p)
    /\ D2A(pm, p)[domain] = addr
    /\ addr \in DOMAIN A2D(pm, p)
    /\ A2D(pm, p)[addr].Domain = domain

\* a step of raft applying a checkoutAddr entry next to the reader
CheckoutStepRead == CheckoutStep /\ UNCHANGED readVars

\* a step of retryDomainLookup reading the local state
LookupStep == lookups' = lookups + 1

EndToEndStep ==
    LET p == "P1"
        d == StepArgs.Domain
        rd == StepArgs.ReuseDeadline
        a2d == A2D(perPeerMap, p)
    IN  /\ (/\ CheckoutStepRead
            /\ StepArgs.NodeID = p
            /\ DOMAIN a2d = {}
            /\ d = "a.example")
           => /\ lastApply'.Err = Nil
              /\ lastApply'.Result = X
              /\ Holds(perPeerMap', p, "a.example", X)
        /\ (/\ CheckoutStepRead
            /\ StepArgs.NodeID = p
            /\ DOMAIN a2d = {X}
            /\ Holds(perPeerMap, p, "a.example", X)
            /\ ~(a2d[X].LastUsed < rd)
            /\ d = "b.example")
           => /\ lastApply'.Err = Nil
              /\ lastApply'.Result = Y
              /\ Holds(perPeerMap', p, "a.example", X)
              /\ Holds(perPeerMap', p, "b.example", Y)
        /\ (/\ CheckoutStepRead
            /\ StepArgs.NodeID = p
            /\ Addrs = {X, Y}
            /\ Holds(perPeerMap, p, "a.example", X)
            /\ Holds(perPeerMap, p, "b.example", Y)
            /\ d = "c.example")
           => /\ (~(a2d[X].LastUsed < rd) /\ ~(a2d[Y].LastUsed < rd))
                 => /\ lastApply'.Err = ErrExhausted
                    /\ perPeerMap' = perPeerMap
              /\ a2d[X].LastUsed < rd
                 => /\ lastApply'.Err = Nil
                    /\ lastApply'.Result = X
                    /\ Holds(perPeerMap', p, "c.example", X)
                    /\ Holds(perPeerMap', p, "b.example", Y)
                    /\ "a.example" \notin DOMAIN D2A(perPeerMap', p)
                    /\ \A a \in DOMAIN A2D(perPeerMap', p) :
                           A2D(perPeerMap', p)[a].Domain # "a.example"
        /\ (/\ LookupStep
            /\ reader.from = p
            /\ reader.addr = X
            /\ Holds(perPeerMap, p, "c.example", X))
           => /\ reader'.pc = "returned"
              /\ reader'.found
              /\ reader'.domain = "c.example"

\* C13: with the addresses X and Y and an empty pool, P1 gets X for
\* a.example, then Y for b.example (X not being due for reuse); c.example
\* fails with ErrExhausted while neither address was last used before the
\* reuse deadline; a checkout of
\* c.example with a reuse deadline after the LastUsed of X returns X and
\* unmaps a.example; DomainForIP(P1, X) then returns c.example.
EndToEnd == [][EndToEndStep]_vars

EndToEndWitness ==
    /\ Addrs = {X, Y}
    /\ reader.pc = "returned"
    /\ reader.from = "P1"
    /\ reader.addr = X
    /\ reader.found
    /\ reader.domain = "c.example"
    /\ lastApply.c.Name = "checkoutAddr"
    /\ lastApply.c.Args.Domain = "c.example"
    /\ lastApply.branch = "reused"
    /\ lastApply.Result = X
    /\ lastApply.before.Domain = "a.example"
    /\ Holds(perPeerMap, "P1", "b.example", Y)
    /\ "a.example" \notin DOMAIN D2A(perPeerMap, "P1")

ProtocolMismatchStep ==
    LET name == lastApply'.c.Name
        p == StepArgs.NodeID
    IN  /\ panicked => UNCHANGED vars
        /\ name \notin {"checkoutAddr", "markLastUsed"}
           => /\ panicked'
              /\ perPeerMap' = perPeerMap
        /\ name \in {"checkoutAddr", "markLastUsed"} => ~panicked'
        /\ (name = "checkoutAddr" /\ lastApply'.Err = Nil)
           => /\ lastApply'.Result \in Addrs
              /\ Holds(perPeerMap', p, StepArgs.Domain, lastApply'.Result)
              /\ A2D(perPeerMap', p)[lastApply'.Result].LastUsed
                     = StepArgs.UpdatedAt
        /\ (name = "checkoutAddr" /\ lastApply'.Err # Nil)
           => /\ lastApply'.Err = ErrExhausted
              /\ \A q \in DOMAIN perPeerMap : perPeerMap'[q] = perPeerMap[q]
        /\ name = "markLastUsed"
           => /\ lastApply'.Result = NoAddr
              /\ lastApply'.Err = Nil
              /\ DOMAIN perPeerMap' = DOMAIN perPeerMap
              /\ \A q \in DOMAIN perPeerMap :
                    /\ perPeerMap'[q].domainToAddr = perPeerMap[q].domainToAddr
                    /\ DOMAIN perPeerMap'[q].addrToDomain
                           = DOMAIN perPeerMap[q].addrToDomain

\* C14: an entry whose name is neither checkoutAddr nor markLastUsed makes
\* Apply panic and leaves perPeerMap as it was, and nothing is applied after
\* the panic; a checkoutAddr entry records its domain with the timestamp of
\* the entry, whatever LastUsed was stored, or fails with ErrExhausted; a
\* markLastUsed entry returns no address and assigns none.
ProtocolMismatch == [][ProtocolMismatchStep]_vars

ProtocolMismatchWitness ==
    /\ panicked
    /\ lastApply.branch = "panic"
    /\ lastApply.c.Name \notin {"checkoutAddr", "markLastUsed"}
    /\ \E p \in DOMAIN perPeerMap : DOMAIN A2D(perPeerMap, p) # {}

MarkFrameStep ==
    LET p == StepArgs.NodeID
        a == StepArgs.Addr
    IN  MarkStep
        => /\ (\/ p \notin DOMAIN perPeerMap
               \/ a \notin DOMAIN A2D(perPeerMap, p)
               \/ A2D(perPeerMap, p)[a].Domain # StepArgs.Domain)
              => perPeerMap' = perPeerMap
           /\ DOMAIN perPeerMap' = DOMAIN perPeerMap
           /\ \A q \in DOMAIN perPeerMap :
                 /\ D2A(perPeerMap', q) = D2A(perPeerMap, q)
                 /\ DOMAIN A2D(perPeerMap', q) = DOMAIN A2D(perPeerMap, q)
                 /\ \A b \in DOMAIN A2D(perPeerMap, q) :
                       /\ A2D(perPeerMap', q)[b].Domain
                              = A2D(perPeerMap, q)[b].Domain
                       /\ (q # p \/ b # a)
                          => A2D(perPeerMap', q)[b] = A2D(perPeerMap, q)[b]

\* C15: a markLastUsed entry changes nothing when the peer is unknown, when
\* the address is not in addrToDomain of the peer, or when the domain stored
\* for the address is not the domain of the entry; it never adds a peer or
\* an address, never changes a Domain field or domainToAddr, and changes at
\* most the LastUsed of its own address of its own peer.
MarkFrame == [][MarkFrameStep]_vars

\* a mark for the previous owner of a reassigned address, with a timestamp
\* that would have refreshed the entry
MarkFrameWitness ==
    /\ lastApply.c.Name = "markLastUsed"
    /\ lastApply.branch = "otherDomain"
    /\ lastApply.c.Args.Domain \notin DOMAIN D2A(perPeerMap, lastApply.c.Args.NodeID)
    /\ lastApply.before.LastUsed < lastApply.c.Args.UpdatedAt
    /\ DOMAIN A2D(perPeerMap, lastApply.c.Args.NodeID) = Addrs

NonBlockingRefreshStep ==
    LookupStep
    => /\ perPeerMap' = perPeerMap
       /\ lastApply' = lastApply
       /\ panicked' = panicked
       /\ (reader'.pc = "returned" /\ reader'.found)
          => /\ refresh'.state = "started"
             /\ refresh'.args = markLastUsedArgs(reader.from, reader.addr,
                                    reader'.domain, reader.updatedAt)
             /\ A2D(perPeerMap', reader.from)[reader.addr]
                    = A2D(perPeerMap, reader.from)[reader.addr]

\* C16: the step in which DomainForIP returns (domain, true) leaves
\* perPeerMap as it was and leaves the markLastUsed it started pending: the
\* caller has its result before the entry is committed or refused.
NonBlockingRefresh == [][NonBlockingRefreshStep]_vars

\* the caller holds its result, the stored LastUsed is still older than the
\* timestamp of the call and the goroutine has not finished
NonBlockingRefreshWitness ==
    /\ reader.pc = "returned"
    /\ reader.found
    /\ refresh.state = "started"
    /\ refresh.args.Domain = reader.domain
    /\ A2D(perPeerMap, reader.from)[reader.addr].LastUsed < reader.updatedAt

\* addrToDomain of the peer of the reader holds the address of the reader
EntryPresent(pm) ==
    /\ reader.from \in DOMAIN pm
    /\ reader.addr \in DOMAIN A2D(pm, reader.from)

MaskingGapStep ==
    LookupStep
    => /\ EntryPresent(perPeerMap)
          => /\ reader'.pc = "returned"
             /\ reader'.found
             /\ reader'.domain = A2D(perPeerMap, reader.from)[reader.addr].Domain
             /\ sleeps' = sleeps
       /\ ~EntryPresent(perPeerMap)
          => /\ ~(reader'.pc = "returned" /\ reader'.found)
             /\ reader'.pc = "returned" => reader'.domain = ""

\* C17: a lookup of retryDomainLookup that finds the entry of (peer, address)
\* in the local state returns found = true at once, with the Domain stored
\* at that moment and without another sleep; a lookup that does not find the
\* entry never returns a domain.
MaskingGap == [][MaskingGapStep]_vars

\* the entry was applied during the retry window: the call missed, slept and
\* then found it
MaskingGapWitness ==
    /\ reader.pc = "returned"
    /\ reader.found
    /\ lookups > 1
    /\ Len(sleeps) = lookups - 1
    /\ reader.domain = A2D(perPeerMap, reader.from)[reader.addr].Domain

\* C18: in every reachable state, for every peer and every address a of its
\* addrToDomain, domainToAddr maps addrToDomain[a].Domain back to a, so no
\* two addresses of a peer name the same domain; and no checkoutAddr entry
\* has found a domain in domainToAddr whose address addrToDomain lacks.
NoOrphanedReverse ==
    /\ \A p \in DOMAIN perPeerMap :
          /\ \A a \in DOMAIN A2D(perPeerMap, p) :
                /\ A2D(perPeerMap, p)[a].Domain \in DOMAIN D2A(perPeerMap, p)
                /\ D2A(perPeerMap, p)[A2D(perPeerMap, p)[a].Domain] = a
          /\ \A a1, a2 \in DOMAIN A2D(perPeerMap, p) :
                a1 # a2 => A2D(perPeerMap, p)[a1].Domain
                               # A2D(perPeerMap, p)[a2].Domain
    /\ lastApply.branch # "outOfSync"

\* an address has just changed owner: the previous domain is gone from both
\* maps and every address entry still has its forward entry
NoOrphanedReverseWitness ==
    /\ lastApply.branch = "reused"
    /\ LET p == lastApply.c.Args.NodeID
       IN  /\ DOMAIN A2D(perPeerMap, p) = Addrs
           /\ lastApply.before.Domain \notin DOMAIN D2A(perPeerMap, p)
           /\ \A a \in Addrs :
                  A2D(perPeerMap, p)[a].Domain # lastApply.before.Domain
           /\ Cardinality(DOMAIN D2A(perPeerMap, p)) = Cardinality(Addrs)

\* the address a of peer p is held by the same domain before and after the step
SameOwner(p, a) ==
    /\ a \in DOMAIN A2D(perPeerMap, p)
    /\ a \in DOMAIN A2D(perPeerMap', p)
    /\ A2D(perPeerMap', p)[a].Domain = A2D(perPeerMap, p)[a].Domain

\* C19 as claimed: no applied entry lowers the LastUsed of an address that
\* stays with its domain, a checkoutAddr of the fast path included.
LastUsedNeverDecreasesAsClaimed ==
    [][\A p \in Peers : \A a \in Addrs :
           SameOwner(p, a)
           => A2D(perPeerMap', p)[a].LastUsed >= A2D(perPeerMap, p)[a].LastUsed]_vars

LastUsedStep ==
    \A p \in Peers : \A a \in Addrs :
        SameOwner(p, a)
        => \/ A2D(perPeerMap', p)[a].LastUsed >= A2D(perPeerMap, p)[a].LastUsed
           \/ /\ CheckoutStep
              /\ lastApply'.branch = "existing"
              /\ StepArgs.NodeID = p
              /\ lastApply'.Result = a
              /\ A2D(perPeerMap, p)[a].Domain = StepArgs.Domain
              /\ A2D(perPeerMap', p)[a].LastUsed = StepArgs.UpdatedAt

\* C19: a markLastUsed entry never lowers the LastUsed of an address that
\* stays with its domain; the only entry that lowers it is a checkoutAddr of
\* the domain that holds the address, which stores its own timestamp.
LastUsedOnlyLoweredByCheckout == [][LastUsedStep]_vars

\* a checkoutAddr of the fast path has stored a timestamp earlier than the
\* LastUsed the entry had
LastUsedLoweredWitness ==
    /\ lastApply.c.Name = "checkoutAddr"
    /\ lastApply.branch = "existing"
    /\ lastApply.before.LastUsed > lastApply.c.Args.UpdatedAt
    /\ A2D(perPeerMap, lastApply.c.Args.NodeID)[lastApply.Result].LastUsed
           = lastApply.c.Args.UpdatedAt
    /\ A2D(perPeerMap, lastApply.c.Args.NodeID)[lastApply.Result].LastUsed
           < lastApply.before.LastUsed

\* the pool with the state of peer p alone
OnlyPeer(pm, p) == [q \in DOMAIN pm \cap {p} |-> pm[q]]

PeerIsolationStep ==
    LET name == lastApply'.c.Name
        p == StepArgs.NodeID
    IN  /\ DOMAIN perPeerMap \subseteq DOMAIN perPeerMap'
        /\ name \in {"checkoutAddr", "markLastUsed"}
           => /\ \A q \in DOMAIN perPeerMap : q # p => perPeerMap'[q] = perPeerMap[q]
              /\ DOMAIN perPeerMap' \subseteq DOMAIN perPeerMap \cup {p}
        /\ name = "checkoutAddr"
           => LET alone == applyCheckoutAddr(OnlyPeer(perPeerMap, p), p,
                               StepArgs.Domain, StepArgs.ReuseDeadline,
                               StepArgs.UpdatedAt)
              IN  /\ lastApply'.Result = alone.addr
                  /\ lastApply'.Err = alone.err
                  /\ perPeerMap'[p] = alone.perPeerMap[p]

\* C20: a checkoutAddr or markLastUsed entry for peer P leaves the state of
\* every other peer as it was, no peer is ever removed from perPeerMap, and
\* the address and the state P gets are those it would get if the pool held
\* no other peer.
PeerIsolation == [][PeerIsolationStep]_vars

\* two peers hold the same address for different domains
PeerIsolationWitness ==
    /\ DOMAIN perPeerMap = Peers
    /\ lastApply.c.Name = "checkoutAddr"
    /\ lastApply.Err = Nil
    /\ \E p, q \in Peers : \E a \in Addrs :
          /\ p # q
          /\ lastApply.c.Args.NodeID = q
          /\ lastApply.Result = a
          /\ a \in DOMAIN A2D(perPeerMap, p)
          /\ a \in DOMAIN A2D(perPeerMap, q)
          /\ A2D(perPeerMap, p)[a].Domain # A2D(perPeerMap, q)[a].Domain

====
